---- MODULE Spec2Model ----
(***************************************************************************)
(* Model of src/models/gmm.py: class GMM(nn.Module), a Gaussian mixture    *)
(* whose parameters (pi, loc, cov) are persisted and whose distributions   *)
(* (_mix, _comp) are derived from them by _build_distributions.            *)
(*                                                                         *)
(* Numbers.  Real tensors are kept in fixed point, in thousandths          *)
(* ("milli"): 1.0 is 1000.  exp, sqrt and the Cholesky factor are computed *)
(* in that fixed point.  The log-density and the log-sum-exp of forward    *)
(* are kept as terms over the values they read (the numerical kernels are  *)
(* the tensor library's): two results are equal when they were computed    *)
(* from equal distributions on equal inputs.                               *)
(*                                                                         *)
(* Distributions.  _mix and _comp are kept as the values the builder made   *)
(* them from (means, scale factor, probabilities, device): what the two     *)
(* attributes refer to changes only where the code assigns them.  Storage   *)
(* that a distribution may share with a parameter tensor inside the tensor  *)
(* library is not modelled.                                                 *)
(*                                                                         *)
(* Errors.  The code raises bare Exception() at its two deliberate raise   *)
(* sites; the model names an error after the site that raises it:          *)
(*   "NotFitted"            forward, line 51                               *)
(*   "InvalidConfiguration" _build_distributions, line 97                  *)
(*   "UnboundLocalError"    _initalize, line 123 (cov never assigned)      *)
(*   "SamplingError"        torch.multinomial, line 115 (k > n, without    *)
(*                          replacement)                                   *)
(*   "ShapeMismatch"        nn.Module.load_state_dict, line 59             *)
(*   "NumericalError"       D.MultivariateNormal, line 89 (not positive    *)
(*                          definite)                                      *)
(***************************************************************************)
EXTENDS Integers, Sequences, FiniteSets, TLC

VARIABLES
    m,      \* the model object bound to each name, or NoModel
    sd,     \* the parameter mapping last saved with state_dict(), or NoMapping
    last    \* the last call made: operation, target, arguments, outcome

vars == <<m, sd, last>>

\* ---------------------------------------------------------------- bounds
MaxK == 2       \* number of mixture components k ranges over 1..MaxK
MaxN == 3       \* number of rows n of the initialising data ranges over 1..MaxN
MaxD == 2       \* number of columns d of the data ranges over 1..MaxD

Ids == {"A", "B"}
CovarianceTypes == {"full", "diag", "invalid"}
Devices == {"cpu", "cuda"}

\* ---------------------------------------------------------------- tensors
Tensor(shape, v) == [shape |-> shape, v |-> v]
None == [shape |-> <<>>, v |-> <<>>]
NoDist == [kind |-> "None"]

RECURSIVE SumSeq(_)
SumSeq(s) == IF s = <<>> THEN 0 ELSE Head(s) + SumSeq(Tail(s))

\* torch.full(fill_value = 1.0 / k, size = [k])
Full(k) == Tensor(<<k>>, [i \in 1..k |-> 1000 \div k])

\* torch.eye(d)
Eye(d) == [i \in 1..d |-> [j \in 1..d |-> IF i = j THEN 1000 ELSE 0]]

\* torch.ones(d)
Ones(d) == [j \in 1..d |-> 1000]

\* torch.exp in fixed point: the Taylor series of exp, eight terms
RECURSIVE ExpTerms(_, _, _)
ExpTerms(x, term, i) ==
    IF i > 8 THEN 0
    ELSE LET t == (term * x) \div (1000 * i) IN t + ExpTerms(x, t, i + 1)

Exp(x) == 1000 + ExpTerms(x, 1000, 1)

\* integer square root (Newton's iteration)
RECURSIVE Newton(_, _)
Newton(n, x) ==
    LET y == (x + n \div x) \div 2 IN IF y >= x THEN x ELSE Newton(n, y)

Sqrt(x) == IF x <= 0 THEN 0 ELSE Newton(x * 1000, x * 1000)

\* torch.diag(vector)
Diag(c) == [i \in 1..Len(c) |-> [j \in 1..Len(c) |-> IF i = j THEN c[i] ELSE 0]]

\* F.softmax(pi, dim=0)
Softmax(p) ==
    LET e == [i \in 1..Len(p) |-> Exp(p[i])]
    IN  [i \in 1..Len(p) |-> (e[i] * 1000) \div SumSeq(e)]

\* Cholesky factor of a covariance matrix (D.MultivariateNormal computes it
\* from covariance_matrix): entry (i, j) of the lower triangular factor.
RECURSIVE CholEntry(_, _, _)
RECURSIVE CholDot(_, _, _, _)
CholDot(A, i, j, p) ==
    IF p = 0 THEN 0
    ELSE (CholEntry(A, i, p) * CholEntry(A, j, p)) \div 1000 + CholDot(A, i, j, p - 1)

CholEntry(A, i, j) ==
    IF j > i THEN 0
    ELSE IF i = j THEN Sqrt(A[i][i] - CholDot(A, i, i, i - 1))
    ELSE ((A[i][j] - CholDot(A, i, j, j - 1)) * 1000) \div CholEntry(A, j, j)

Cholesky(A) == [i \in 1..Len(A) |-> [j \in 1..Len(A) |-> CholEntry(A, i, j)]]

\* constraints.positive_definite: symmetric, and every pivot of the
\* factorisation is positive
RECURSIVE PivotsPositive(_, _)
PivotsPositive(A, j) ==
    \/ j = 0
    \/ /\ PivotsPositive(A, j - 1)
       /\ A[j][j] - CholDot(A, j, j, j - 1) > 0
       /\ CholEntry(A, j, j) > 0

PositiveDefinite(A) ==
    /\ \A i, j \in 1..Len(A) : A[i][j] = A[j][i]
    /\ PivotsPositive(A, Len(A))

\* ---------------------------------------------------------------- the object
NoModel ==
    [alive |-> FALSE, k |-> 0, covariance_type |-> "none",
     pi |-> None, loc |-> None, cov |-> None, dev |-> "cpu",
     fitted |-> FALSE, mix |-> NoDist, comp |-> NoDist]

NoMapping == [pi |-> None, loc |-> None, cov |-> None]

NoCall ==
    [op |-> "none", id |-> "A", err |-> "none", k |-> 0, n |-> 0,
     covariance_type |-> "none", arg |-> NoMapping, out |-> None]

Call(op, id, err) == [NoCall EXCEPT !.op = op, !.id = id, !.err = err]

\* the initialising data: n rows of d columns
Data(n, d) == Tensor(<<n, d>>, [i \in 1..n |-> [j \in 1..d |-> (i + j) % 2]])

\* torch.multinomial(prob, num_samples=k), replacement=False: the draws it
\* can return, k distinct row indices; none when k > n (it raises)
Multinomial(n, k) ==
    {s \in [1..k -> 1..n] : \A a, b \in 1..k : a # b => s[a] # s[b]}

\* ---------------------------------------------------------------- operations
\* Every operation returns [err, self]: the error raised ("none" when the call
\* returns) and the object as the call leaves it.
Result(err, self) == [err |-> err, self |-> self]

\* D.Categorical(probs): probs are normalised to sum to one
Categorical(probs, dev) ==
    [kind |-> "Categorical",
     probs |-> [i \in 1..Len(probs) |-> (probs[i] * 1000) \div SumSeq(probs)],
     dev |-> dev]

\* D.MultivariateNormal(loc, scale_tril=...)
MultivariateNormal(loc, scale_tril, dev) ==
    [kind |-> "MultivariateNormal", loc |-> loc, scale_tril |-> scale_tril, dev |-> dev]

\* GMM._initalize_parameters(pi, loc, cov) is called at line 123 and defined
\* nowhere in gmm.py (GMM is written as a base class).  It is taken from the
\* specification's Initializer: it writes the three tensors into the
\* Parameter Store as they are, where _build_distributions reads them back as
\* self.pi, self.loc and self.cov.
InitalizeParameters(self, pi, loc, cov) ==
    [self EXCEPT !.pi = pi, !.loc = loc, !.cov = cov]

\* GMM._build_distributions (the second definition, which is the one in force)
BuildDistributions(self) ==
    LET k == Len(self.cov.v)
        withMix(comp) ==
            [self EXCEPT !.comp = comp,
                         !.mix = Categorical(Softmax(self.pi.v), self.dev)]
    IN  IF self.covariance_type = "full" THEN
            IF \E j \in 1..k : ~PositiveDefinite(self.cov.v[j])
            THEN Result("NumericalError", self)
            ELSE Result("none",
                        withMix(MultivariateNormal(self.loc.v,
                                    [j \in 1..k |-> Cholesky(self.cov.v[j])],
                                    self.dev)))
        ELSE IF self.covariance_type = "diag" THEN
            Result("none",
                   withMix(MultivariateNormal(self.loc.v,
                               [j \in 1..k |-> Diag([i \in 1..Len(self.cov.v[j]) |->
                                                        Exp(self.cov.v[j][i])])],
                               self.dev)))
        ELSE Result("InvalidConfiguration", self)

\* GMM._initalize(data); idx is the draw torch.multinomial returns
Initalize(self, data, idx) ==
    LET n == data.shape[1]
        d == data.shape[2]
        k == self.k
        pi == Full(k)
    IN  IF k > n THEN Result("SamplingError", self)
        ELSE
          LET loc == Tensor(<<k, d>>, [i \in 1..k |-> data.v[idx[i]]])
          IN  IF self.covariance_type = "full" THEN
                  BuildDistributions(InitalizeParameters(self, pi, loc,
                      Tensor(<<k, d, d>>, [i \in 1..k |-> Eye(d)])))
              ELSE IF self.covariance_type = "diag" THEN
                  BuildDistributions(InitalizeParameters(self, pi, loc,
                      Tensor(<<k, d>>, [i \in 1..k |-> Ones(d)])))
              ELSE Result("UnboundLocalError", self)

\* GMM.__init__(k, data, covariance_type)
GMMInit(k, data, covariance_type, idx) ==
    Initalize([NoModel EXCEPT !.alive = TRUE, !.k = k,
                              !.covariance_type = covariance_type,
                              !.mix = NoDist, !.comp = NoDist,
                              !.fitted = FALSE],
              data, idx)

\* the log-likelihood of one point x: logsumexp over the components of
\* comp.log_prob(x) + log_softmax(mix.logits), as a term over what it reads
LogLikelihood(mix, comp, x) ==
    [x |-> x,
     terms |-> [j \in 1..Len(comp.loc) |->
                  [loc |-> comp.loc[j], scale_tril |-> comp.scale_tril[j],
                   weight |-> (mix.probs[j] * 1000) \div SumSeq(mix.probs)]]]

\* fault: forward guards on the distributions being present, not on _fitted
ForwardGuardOnDistributions(self, X) ==
    IF self.comp = NoDist \/ self.mix = NoDist
    THEN [err |-> "NotFitted", out |-> None]
    ELSE [err |-> "none",
          out |-> Tensor(<<X.shape[1], 1>>,
                         [i \in 1..X.shape[1] |->
                             <<LogLikelihood(self.mix, self.comp, X.v[i])>>])]

\* GMM.forward(X): returns [err, out]
Forward(self, X) ==
    IF ~self.fitted THEN [err |-> "NotFitted", out |-> None]
    ELSE [err |-> "none",
          out |-> Tensor(<<X.shape[1], 1>>,
                         [i \in 1..X.shape[1] |->
                             <<LogLikelihood(self.mix, self.comp, X.v[i])>>])]

\* nn.Module.state_dict(): the persisted tensors by name
StateDictOf(self) == [pi |-> self.pi, loc |-> self.loc, cov |-> self.cov]

\* nn.Module.load_state_dict(mapping), strict: a tensor whose shape agrees is
\* copied into its parameter, one whose shape disagrees is left and reported,
\* and the call raises when anything was reported
SuperLoadStateDict(self, mapping) ==
    LET take(old, new) == IF new.shape = old.shape THEN new ELSE old
        loaded == [self EXCEPT !.pi = take(self.pi, mapping.pi),
                               !.loc = take(self.loc, mapping.loc),
                               !.cov = take(self.cov, mapping.cov)]
    IN  IF StateDictOf(loaded) = mapping THEN Result("none", loaded)
        ELSE Result("ShapeMismatch", loaded)

\* fault: load_state_dict marks the model fitted without rebuilding
LoadStateDictNoRebuild(self, mapping) ==
    LET sup == SuperLoadStateDict(self, mapping)
    IN  IF sup.err # "none" THEN sup
        ELSE Result("none", [sup.self EXCEPT !.fitted = TRUE])

\* fault: load_state_dict rebuilds and marks the model fitted on the error
\* path too (as in a finally block)
LoadStateDictFinally(self, mapping) ==
    LET sup == SuperLoadStateDict(self, mapping)
        built == BuildDistributions(sup.self)
    IN  IF sup.err # "none"
        THEN Result(sup.err, [built.self EXCEPT !.fitted = TRUE])
        ELSE IF built.err # "none" THEN built
        ELSE Result("none", [built.self EXCEPT !.fitted = TRUE])

\* GMM.load_state_dict
LoadStateDict(self, mapping) ==
    LET sup == SuperLoadStateDict(self, mapping)
    IN  IF sup.err # "none" THEN sup
        ELSE LET built == BuildDistributions(sup.self)
             IN  IF built.err # "none" THEN built
                 ELSE Result("none", [built.self EXCEPT !.fitted = TRUE])

\* nn.Module.to / cuda / cpu: the persisted tensors are moved
SuperTo(self, dev) == [self EXCEPT !.dev = dev]

\* fault: to() moves the tensors and returns without rebuilding
ToNoRebuild(self, dev) == Result("none", SuperTo(self, dev))

\* GMM.to
To(self, dev) == BuildDistributions(SuperTo(self, dev))

\* GMM.cuda
Cuda(self) == BuildDistributions(SuperTo(self, "cuda"))

\* GMM.cpu
Cpu(self) == BuildDistributions(SuperTo(self, "cpu"))

\* ---------------------------------------------------------------- inputs
\* evaluation batches of width d
Batches(d) ==
    {Tensor(<<1, d>>, <<[j \in 1..d |-> 0]>>),
     Tensor(<<2, d>>, <<[j \in 1..d |-> 0], [j \in 1..d |-> 1]>>)}

\* a mapping of trained values in the shape of (k, d, covariance_type):
\* unequal logits, means away from the data, covariances 4 I (FULL) or
\* log-scales 0 (DIAG)
TrainedMapping(k, d, covariance_type) ==
    [pi |-> Tensor(<<k>>, [i \in 1..k |-> 1000 * (i - 1)]),
     loc |-> Tensor(<<k, d>>, [i \in 1..k |-> [j \in 1..d |-> 2]]),
     cov |-> IF covariance_type = "full"
             THEN Tensor(<<k, d, d>>,
                         [i \in 1..k |-> [a \in 1..d |-> [b \in 1..d |->
                             IF a = b THEN 4000 ELSE 0]]])
             ELSE Tensor(<<k, d>>, [i \in 1..k |-> [j \in 1..d |-> 0]])]

\* a mapping of zeros in the shape of (k, d, covariance_type): its FULL
\* covariances are not positive definite
ZeroMapping(k, d, covariance_type) ==
    [pi |-> Tensor(<<k>>, [i \in 1..k |-> 0]),
     loc |-> Tensor(<<k, d>>, [i \in 1..k |-> [j \in 1..d |-> 0]]),
     cov |-> IF covariance_type = "full"
             THEN Tensor(<<k, d, d>>, [i \in 1..k |-> [a \in 1..d |-> [b \in 1..d |-> 0]]])
             ELSE Tensor(<<k, d>>, [i \in 1..k |-> [j \in 1..d |-> 0]])]

\* the mappings an external caller holds: two per shape, so that a load can
\* agree with the target's shapes, or disagree on some or all of them
ExternalMappings ==
    UNION {{TrainedMapping(k, d, ct), ZeroMapping(k, d, ct)} :
              k \in 1..MaxK, d \in 1..MaxD, ct \in {"full", "diag"}}

\* the mapping saved with state_dict(), when there is one
SavedMappings == IF sd = NoMapping THEN {} ELSE {sd}

\* ---------------------------------------------------------------- actions
Init ==
    /\ m = [id \in Ids |-> NoModel]
    /\ sd = NoMapping
    /\ last = NoCall

\* id = GMM(k, data, covariance_type), for a name not yet bound: on an error
\* the name stays unbound
Construct(id) ==
    /\ ~m[id].alive
    /\ \E k \in 1..MaxK, n \in 1..MaxN, d \in 1..MaxD, ct \in CovarianceTypes :
         \E idx \in (IF k <= n THEN Multinomial(n, k) ELSE {<<>>}) :
           \E r \in {GMMInit(k, Data(n, d), ct, idx)} :
             /\ m' = IF r.err = "none" THEN [m EXCEPT ![id] = r.self] ELSE m
             /\ last' = [Call("construct", id, r.err) EXCEPT
                             !.k = k, !.n = n, !.covariance_type = ct]
    /\ UNCHANGED sd

\* sd = id.state_dict()
SaveStateDict(id) ==
    /\ m[id].alive
    /\ sd' = StateDictOf(m[id])
    /\ last' = Call("state_dict", id, "none")
    /\ UNCHANGED m

\* id.load_state_dict(mapping), for a mapping among those given whose means
\* have the model's width (its k and its covariance shape may disagree)
Load(id, mappings) ==
    /\ m[id].alive
    /\ \E mapping \in {x \in mappings : x.loc.shape[2] = m[id].loc.shape[2]} :
         \E r \in {LoadStateDict(m[id], mapping)} :
           /\ m' = [m EXCEPT ![id] = r.self]
           /\ last' = [Call("load_state_dict", id, r.err) EXCEPT !.arg = mapping]
    /\ UNCHANGED sd

\* id(X)
Evaluate(id) ==
    /\ m[id].alive
    /\ \E X \in Batches(m[id].loc.shape[2]) :
         \E r \in {Forward(m[id], X)} :
           last' = [Call("forward", id, r.err) EXCEPT !.out = r.out]
    /\ UNCHANGED <<m, sd>>

\* id.to(dev)
MoveTo(id) ==
    /\ m[id].alive
    /\ \E dev \in Devices :
         \E r \in {To(m[id], dev)} :
           /\ m' = [m EXCEPT ![id] = r.self]
           /\ last' = Call("to", id, r.err)
    /\ UNCHANGED sd

\* id.cuda()
MoveCuda(id) ==
    /\ m[id].alive
    /\ \E r \in {Cuda(m[id])} :
         /\ m' = [m EXCEPT ![id] = r.self]
         /\ last' = Call("cuda", id, r.err)
    /\ UNCHANGED sd

\* id.cpu()
MoveCpu(id) ==
    /\ m[id].alive
    /\ \E r \in {Cpu(m[id])} :
         /\ m' = [m EXCEPT ![id] = r.self]
         /\ last' = Call("cpu", id, r.err)
    /\ UNCHANGED sd

\* id._build_distributions(), the explicit rebuild
Rebuild(id) ==
    /\ m[id].alive
    /\ \E r \in {BuildDistributions(m[id])} :
         /\ m' = [m EXCEPT ![id] = r.self]
         /\ last' = Call("build", id, r.err)
    /\ UNCHANGED sd

\* One model object and the mappings of an external caller.
Next ==
    \/ Construct("A")
    \/ Load("A", ExternalMappings)
    \/ Evaluate("A")
    \/ MoveTo("A")
    \/ MoveCuda("A")
    \/ MoveCpu("A")
    \/ Rebuild("A")

Spec == Init /\ [][Next]_vars

\* Two model objects and the mapping saved from one of them: the round trip.
NextRT ==
    \E id \in Ids :
        \/ Construct(id)
        \/ SaveStateDict(id)
        \/ Load(id, SavedMappings)
        \/ Evaluate(id)

SpecRT == Init /\ [][NextRT]_vars

\* ---------------------------------------------------------------- properties
Placement == {"to", "cuda", "cpu"}

\* the width d the object was constructed with
Width(self) == self.loc.shape[2]

\* the distributions the Distribution Builder makes of the object's tensors
\* as they are now
Fresh(self) == BuildDistributions(self).self

\* C1: when the constructor returns, the fitted flag is true and an
\* evaluation called immediately afterwards succeeds, for every batch.
C1_FittedAfterConstruction ==
    (last.op = "construct" /\ last.err = "none") =>
        /\ m[last.id].fitted
        /\ \A X \in Batches(Width(m[last.id])) : Forward(m[last.id], X).err = "none"

\* C2: a call of forward on a model whose fitted flag is false fails with
\* NotFitted and returns no values, whatever the distributions hold; a call
\* on a model whose flag is true does not fail with NotFitted.  (forward
\* leaves the object as it was, so the flag read here is the one it saw.)
C2_NotFittedGuard ==
    last.op = "forward" =>
        /\ ~m[last.id].fitted => (last.err = "NotFitted" /\ last.out = None)
        /\ m[last.id].fitted => (last.err # "NotFitted" /\ last.out # None)

\* C2 witness: forward was refused on an unfitted model whose distributions
\* are built.
C2_Witness ==
    /\ last.op = "forward"
    /\ last.err = "NotFitted"
    /\ ~m[last.id].fitted
    /\ m[last.id].comp # NoDist
    /\ m[last.id].mix # NoDist

\* C3: after a load_state_dict that returns, the parameters are the loaded
\* tensors, the distributions are the ones the Distribution Builder makes of
\* them, and fitted is true, so that an evaluation directly afterwards
\* succeeds on them.
C3_LoadBuildsAndFits ==
    (last.op = "load_state_dict" /\ last.err = "none") =>
        LET self == m[last.id] IN
        /\ self.fitted
        /\ StateDictOf(self) = last.arg
        /\ self.mix = Fresh(self).mix
        /\ self.comp = Fresh(self).comp
        /\ self.comp.loc = last.arg.loc.v
        /\ \A X \in Batches(Width(self)) : Forward(self, X).err = "none"

\* C3 witness: a load returned on a model that had been moved to another
\* device, and its distributions carry the loaded means.
C3_Witness ==
    /\ last.op = "load_state_dict"
    /\ last.err = "none"
    /\ m[last.id].fitted
    /\ m[last.id].dev = "cuda"
    /\ m[last.id].comp.loc = last.arg.loc.v
    /\ last.arg.loc.v[1][1] = 2

\* C4: when a placement call (to, cuda, cpu) returns, the distributions are
\* the ones the Distribution Builder makes of the tensors as they are after
\* the move, on the device the tensors are on.
C4_PlacementRebuilds ==
    (last.op \in Placement /\ last.err = "none") =>
        LET self == m[last.id] IN
        /\ self.mix = Fresh(self).mix
        /\ self.comp = Fresh(self).comp
        /\ self.mix.dev = self.dev
        /\ self.comp.dev = self.dev

\* C4 witness: to() returned on a model with loaded means that it moved to
\* cuda, and the distributions are on cuda with those means.
C4_Witness ==
    /\ last.op = "to"
    /\ last.err = "none"
    /\ m[last.id].dev = "cuda"
    /\ m[last.id].comp.dev = "cuda"
    /\ m[last.id].comp.loc = m[last.id].loc.v
    /\ m[last.id].loc.v[1][1] = 2

\* C5: construction with n <= k rows fails and yields no model (stated for
\* a failure of any kind).
C5_TooFewRowsRejected ==
    (last.op = "construct" /\ last.n <= last.k) =>
        (last.err # "none" /\ ~m[last.id].alive)

\* C6: construction with a covariance_type that is neither "full" nor "diag"
\* (and enough rows) fails with the InvalidConfiguration error of a
\* validation, and yields no model.
C6_InvalidTypeRejectedByValidation ==
    (last.op = "construct" /\ last.covariance_type \notin {"full", "diag"}
        /\ last.n > last.k) =>
        (last.err = "InvalidConfiguration" /\ ~m[last.id].alive)

\* C7: round trip.  When B has just loaded the parameter mapping of the
\* constructed model A, evaluation of A and of B on the same batch both
\* succeed and return the same log-likelihoods.
C7_RoundTrip ==
    (/\ last.op = "load_state_dict" /\ last.id = "B" /\ last.err = "none"
     /\ m["A"].alive
     /\ last.arg = StateDictOf(m["A"])) =>
        \A X \in Batches(Width(m["A"])) :
            /\ Forward(m["A"], X).err = "none"
            /\ Forward(m["B"], X).err = "none"
            /\ Forward(m["A"], X).out = Forward(m["B"], X).out

\* C8: in every reachable state, a model whose fitted flag is false has no
\* distributions.
C8_UnfittedHasNoDistributions ==
    \A id \in Ids :
        (m[id].alive /\ ~m[id].fitted) =>
            (m[id].mix = NoDist /\ m[id].comp = NoDist)

\* C9: for DIAG, the Initializer stores k d-vectors of zeros, so that the
\* initial scale, got by exponentiation, is 1 on the diagonal of every
\* component, the unit of the identity matrices stored for FULL.
C9_DiagInitUnitScale ==
    (last.op = "construct" /\ last.err = "none"
        /\ last.covariance_type = "diag") =>
        LET self == m[last.id] IN
        /\ \A i \in 1..self.k : \A j \in 1..Width(self) : self.cov.v[i][j] = 0
        /\ \A i \in 1..self.k : self.comp.scale_tril[i] = Eye(Width(self))

====
